---- MODULE Spec2Model ----
(***************************************************************************)
(* A model of the interval tree of ddalg (ddalg/itree/_itree.py and        *)
(* ddalg/itree/_tree.py): the recursive centred-partition construction of  *)
(* IntervalNode, the point and range queries, the fuzzy query, the lazily  *)
(* rebuilt IntervalTree container and the forward iterator.                *)
(*                                                                         *)
(* Interval bounds are integers.  Query numbers (positions, query bounds,  *)
(* margins) are rationals with the common denominator Q: the query number  *)
(* v stands for v / Q, and num(x) is the integer bound x on that grid.     *)
(* An Interval object is a record [begin, end, id]; id is the object's     *)
(* identity (its index in the backing list), which __eq__, __hash__ and    *)
(* __lt__ never read.                                                      *)
(***************************************************************************)
EXTENDS Integers, Sequences, FiniteSets, TLC

VARIABLES _intervals, _head, _in_sync, _size, n, k, call, cursor

vars == <<_intervals, _head, _in_sync, _size, n, k, call, cursor>>

(* ------------------------------ bounds -------------------------------- *)

\* interval bounds of the container specifications lie in 0..MaxPos
MaxPos == 4
\* the backing list of the container specifications holds at most MaxLen intervals
MaxLen == 2
\* coverage values are the fractions c / CovDen
CovDen == 2
\* SpecNode constructs trees from at most NodeLen intervals within 0..NodePos
NodePos == 5
NodeLen == 3
\* SpecQuery queries trees of at most QueryLen intervals (b, b + 2), b in 0..QuerySpan
QuerySpan == 7
QueryLen == 4
\* SpecIter iterates over trees of at most IterLen intervals within 0..IterPos
IterPos == 7
IterLen == 3

Q == 2 * CovDen

num(x) == Q * x

(* --------------------------- Python values ---------------------------- *)

None == [none |-> TRUE]

Ok(r) == [raised |-> "None", ret |-> r]

Raise(e) == [raised |-> e, ret |-> <<>>]

(* ------------------------------ Interval ------------------------------ *)

contains(self, value) == num(self.end) >= value /\ value > num(self.begin)

intersects(self, begin, end) == end > num(self.begin) /\ begin < num(self.end)

lt(self, other) ==
    IF self.begin # other.begin THEN self.begin < other.begin
    ELSE self.end < other.end

eq(self, other) == self.begin = other.begin /\ self.end = other.end

\* the (begin, end) pair that __hash__ and __eq__ read: the dictionary key
key(x) == [begin |-> x.begin, end |-> x.end]

(* ----------------------------- get_center ----------------------------- *)

RECURSIVE sort(_)
sort(S) ==
    IF S = {} THEN <<>>
    ELSE LET m == CHOOSE x \in S : \A y \in S : x <= y
         IN <<m>> \o sort(S \ {m})

get_center(items) ==
    LET positions == {items[i].begin : i \in DOMAIN items}
                        \cup {items[i].end : i \in DOMAIN items}
        sorted_positions == sort(positions)
        len == Len(sorted_positions)
    IN IF len % 2 = 1 THEN sorted_positions[(len + 1) \div 2]
       ELSE (sorted_positions[len \div 2] + sorted_positions[len \div 2 + 1]) \div 2

(* ---------------------------- IntervalNode ---------------------------- *)

RECURSIVE sorted(_)
sorted(keys) ==
    IF keys = {} THEN <<>>
    ELSE LET m == CHOOSE x \in keys : \A y \in keys \ {x} : lt(x, y)
         IN <<m>> \o sorted(keys \ {m})

RecursionError == [raised |-> "RecursionError"]

\* the three buckets of IntervalNode.__init__
left_bucket(intervals, center) ==
    SelectSeq(intervals, LAMBDA x : x.end < center)

right_bucket(intervals, center) ==
    SelectSeq(intervals, LAMBDA x : ~(x.end < center) /\ x.begin >= center)

inner_bucket(intervals, center) ==
    SelectSeq(intervals, LAMBDA x : ~(x.end < center) /\ ~(x.begin >= center))

\* self.intervals: the keys in ascending order, each with the list of the
\* intervals that share it, in input order
own_map(inner) ==
    LET keys == sorted({key(inner[i]) : i \in DOMAIN inner})
    IN [j \in DOMAIN keys |->
          [key |-> keys[j],
           items |-> SelectSeq(inner, LAMBDA x : key(x) = keys[j])]]

\* A recursive call on the very list it was given repeats itself for ever:
\* Python ends it with RecursionError.
RECURSIVE IntervalNode(_)
IntervalNode(intervals) ==
    IF Len(intervals) = 0
    THEN [intervals |-> <<>>, left |-> None, right |-> None]
    ELSE LET center == get_center(intervals)
             left == left_bucket(intervals, center)
             right == right_bucket(intervals, center)
             inner == inner_bucket(intervals, center)
         IN IF left = intervals \/ right = intervals THEN RecursionError
            ELSE LET l == IF Len(left) # 0 THEN IntervalNode(left) ELSE None
                     r == IF Len(right) # 0 THEN IntervalNode(right) ELSE None
                 IN IF l = RecursionError \/ r = RecursionError
                    THEN RecursionError
                    ELSE [intervals |-> own_map(inner), _center |-> center,
                          left |-> l, right |-> r]

\* IntervalNode.__len__; a node is true in a condition when its length is not 0
length(node) == IF Len(node.intervals) # 0 THEN Len(node.intervals) ELSE 0

truth(x) == x # None /\ length(x) # 0

(* ------------------------- IntervalNode.search ------------------------ *)

RECURSIVE search_own(_, _, _)
search_own(entries, i, position) ==
    IF i > Len(entries) THEN <<>>
    ELSE IF contains(entries[i].key, position)
         THEN entries[i].items \o search_own(entries, i + 1, position)
         ELSE IF num(entries[i].key.begin) > position THEN <<>>
              ELSE search_own(entries, i + 1, position)

RECURSIVE node_search(_, _)
node_search(self, position) ==
    LET results == search_own(self.intervals, 1, position)
    IN IF "_center" \notin DOMAIN self THEN Raise("AttributeError")
       ELSE IF position < num(self._center) /\ truth(self.left)
            THEN LET sub == node_search(self.left, position)
                 IN IF sub.raised # "None" THEN sub ELSE Ok(results \o sub.ret)
            ELSE IF position >= num(self._center) /\ truth(self.right)
                 THEN LET sub == node_search(self.right, position)
                      IN IF sub.raised # "None" THEN sub ELSE Ok(results \o sub.ret)
                 ELSE Ok(results)

(* ---------------------- IntervalNode.get_overlaps --------------------- *)

RECURSIVE overlaps_own(_, _, _, _)
overlaps_own(entries, i, begin, end) ==
    IF i > Len(entries) THEN <<>>
    ELSE IF intersects(entries[i].key, begin, end)
         THEN entries[i].items \o overlaps_own(entries, i + 1, begin, end)
         ELSE IF num(entries[i].key.begin) >= end THEN <<>>
              ELSE overlaps_own(entries, i + 1, begin, end)

RECURSIVE node_get_overlaps(_, _, _)
node_get_overlaps(self, begin, end) ==
    LET results == overlaps_own(self.intervals, 1, begin, end)
    IN IF "_center" \notin DOMAIN self THEN Raise("AttributeError")
       ELSE LET l == IF begin <= num(self._center) /\ truth(self.left)
                     THEN node_get_overlaps(self.left, begin, end)
                     ELSE Ok(<<>>)
                r == IF end > num(self._center) /\ truth(self.right)
                     THEN node_get_overlaps(self.right, begin, end)
                     ELSE Ok(<<>>)
            IN IF l.raised # "None" THEN l
               ELSE IF r.raised # "None" THEN r
                    ELSE Ok(results \o l.ret \o r.ret)

(* ----------------- IntervalNode.minimum, __eq__, parent --------------- *)

\* A node reference is the path of left/right links from the root to it;
\* the parent back-reference is the path without its last link.
RECURSIVE at(_, _)
at(root, path) ==
    IF Len(path) = 0 THEN root
    ELSE at(IF Head(path) = "left" THEN root.left ELSE root.right, Tail(path))

parent(path) ==
    IF Len(path) = 0 THEN None
    ELSE [path |-> SubSeq(path, 1, Len(path) - 1)]

RECURSIVE minimum(_, _)
minimum(root, path) ==
    IF truth(at(root, path).left) THEN minimum(root, path \o <<"left">>)
    ELSE path

\* OrderedDict.__eq__ of two interval maps: the same keys in the same order,
\* and equal lists under them
dict_eq(a, b) ==
    /\ Len(a) = Len(b)
    /\ \A i \in DOMAIN a :
          /\ eq(a[i].key, b[i].key)
          /\ Len(a[i].items) = Len(b[i].items)
          /\ \A j \in DOMAIN a[i].items : eq(a[i].items[j], b[i].items[j])

\* IntervalNode.__eq__(self, other); other.intervals of None raises, also
\* when Python reflects None == node to node.__eq__(None)
RECURSIVE node_eq(_, _)
node_eq(self, other) ==
    IF other = None THEN "AttributeError"
    ELSE IF ~dict_eq(self.intervals, other.intervals) THEN "False"
    ELSE LET l == IF self.left = None /\ other.left = None THEN "True"
                  ELSE IF self.left = None THEN node_eq(other.left, self.left)
                  ELSE node_eq(self.left, other.left)
         IN IF l # "True" THEN l
            ELSE IF self.right = None /\ other.right = None THEN "True"
                 ELSE IF self.right = None THEN node_eq(other.right, self.right)
                 ELSE node_eq(self.right, other.right)

(* ------------------------- IntervalTreeIterator ----------------------- *)

RECURSIVE flatten(_)
flatten(entries) ==
    IF Len(entries) = 0 THEN <<>>
    ELSE Head(entries).items \o flatten(Tail(entries))

node_to_queue(root, node) ==
    IF node # None /\ truth(at(root, node.path))
    THEN flatten(at(root, node.path).intervals)
    ELSE <<>>

\* the walk up of successor: while y and node == y.right
RECURSIVE climb(_, _)
climb(root, path) ==
    LET y == parent(path)
    IN IF y = None \/ ~truth(at(root, y.path)) THEN Ok(y)
       ELSE LET same == node_eq(at(root, path), at(root, y.path).right)
            IN IF same = "AttributeError" THEN Raise("AttributeError")
               ELSE IF same = "True" THEN climb(root, y.path)
               ELSE Ok(y)

successor(root, node) ==
    IF node = None THEN Raise("AttributeError")
    ELSE IF truth(at(root, node.path).right)
         THEN Ok([path |-> minimum(root, node.path \o <<"right">>)])
         ELSE climb(root, node.path)

\* has_next: the iterator after the call, and what the call returned or raised
has_next(self) ==
    IF ~self.initialized /\ ~truth(self.root) THEN [it |-> self, raised |-> "None", ret |-> FALSE]
    ELSE LET first == [path |-> minimum(self.root, <<>>)]
             init == IF self.initialized THEN self
                     ELSE [self EXCEPT !.node = first,
                                       !.queue = node_to_queue(self.root, first),
                                       !.initialized = TRUE]
         IN IF Len(init.queue) # 0 THEN [it |-> init, raised |-> "None", ret |-> TRUE]
            ELSE LET next == successor(init.root, init.node)
                 IN IF next.raised # "None"
                    THEN [it |-> init, raised |-> next.raised, ret |-> FALSE]
                    ELSE LET queue == node_to_queue(init.root, next.ret)
                         IN [it |-> [init EXCEPT !.node = next.ret, !.queue = queue],
                             raised |-> "None", ret |-> Len(queue) # 0]

IntervalTreeIterator(root) ==
    [root |-> root, initialized |-> FALSE, node |-> None, queue |-> <<>>,
     out |-> <<>>, state |-> "active"]

(* ------------------------------ fuzzy query --------------------------- *)

\* ddalg.utils.get_boundary_margin: (end - begin) * (1 - coverage) / 2 with
\* coverage = c / CovDen; exact when begin and end are whole numbers
get_boundary_margin(begin, end, coverage) ==
    ((end - begin) * (CovDen - coverage)) \div (2 * CovDen)

\* a fuzzy query that filters on the distal range in place of the proximal
\* one: its filter tightens while its search widens
fuzzy_result_distal(head, begin, end, coverage) ==
    LET margin == get_boundary_margin(begin, end, coverage)
        dist_begin == begin - margin
        dist_end == end + margin
        found == node_get_overlaps(head, dist_begin, dist_end)
    IN IF found.raised # "None" THEN found
       ELSE Ok(SelectSeq(found.ret,
                         LAMBDA interval : /\ num(interval.begin) <= dist_begin
                                           /\ num(interval.end) >= dist_end))

\* the body of _itree.IntervalTree.fuzzy_query after the build
fuzzy_result(head, begin, end, coverage) ==
    LET margin == get_boundary_margin(begin, end, coverage)
        dist_begin == begin - margin
        dist_end == end + margin
        prox_begin == begin + margin
        prox_end == end - margin
        found == node_get_overlaps(head, dist_begin, dist_end)
    IN IF found.raised # "None" THEN found
       ELSE Ok(SelectSeq(found.ret,
                         LAMBDA interval : /\ num(interval.begin) <= prox_begin
                                           /\ num(interval.end) >= prox_end))

\* the body of _tree.IntervalTree.fuzzy_query after the build
tree_fuzzy_result(head, begin, end, coverage) ==
    LET margin == get_boundary_margin(begin, end, coverage)
        dist_begin == begin - margin
        dist_end == end + margin
        prox_begin == begin + margin
        prox_end == end - margin
        found == node_get_overlaps(head, begin, end)
    IN IF found.raised # "None" THEN found
       ELSE Ok(SelectSeq(found.ret,
                         LAMBDA interval :
                            /\ dist_begin <= num(interval.begin)
                            /\ num(interval.begin) <= prox_begin
                            /\ dist_end >= num(interval.end)
                            /\ num(interval.end) >= prox_end))

\* if 0 < coverage > 1: raise ValueError
coverage_rejected(coverage) == 0 < coverage /\ coverage > CovDen

(* ------------------------------ IntervalTree -------------------------- *)

\* the Interval objects of a list of (begin, end) pairs
objects(pairs) ==
    [i \in DOMAIN pairs |-> [begin |-> pairs[i][1], end |-> pairs[i][2], id |-> i]]

Lists(S, m) == UNION {[1..j -> S] : j \in 0..m}

Returned(name, args, r) ==
    [name |-> name, args |-> args, raised |-> r.raised, ret |-> r.ret]

\* The caller's list, before IntervalTree(intervals) is called with it.  The
\* tree keeps this very list object as self._intervals.
New(pairs) ==
    /\ _intervals = objects(pairs)
    /\ _head = None
    /\ _in_sync = FALSE
    /\ _size = 0
    /\ n = Len(pairs)
    /\ k = 0
    /\ call = Returned("new", <<>>, Ok(<<>>))
    /\ cursor = None

\* self._intervals = intervals: the constructor keeps the list object it was
\* given, so the caller's list and the backing list are one object
intervals_argument == _intervals

\* IntervalTree.__init__; when the node construction raises there is no tree
__init__ ==
    /\ call.name = "new"
    /\ LET node == IntervalNode(_intervals)
       IN IF node = RecursionError
          THEN /\ call' = Returned("__init__", <<>>, Raise("RecursionError"))
               /\ UNCHANGED <<_head, _in_sync, _size>>
          ELSE /\ _head' = node
               /\ _in_sync' = TRUE
               /\ _size' = Len(_intervals)
               /\ call' = Returned("__init__", <<>>, Ok(<<>>))
    /\ UNCHANGED <<_intervals, n, k, cursor>>

\* an IntervalTree object exists
constructed == _head # None

\* what build() leaves behind, and what it raised
built ==
    IF _in_sync
    THEN [head |-> _head, in_sync |-> TRUE, size |-> _size, raised |-> "None"]
    ELSE LET node == IntervalNode(_intervals)
         IN IF node = RecursionError
            THEN [head |-> _head, in_sync |-> FALSE, size |-> _size,
                  raised |-> "RecursionError"]
            ELSE [head |-> node, in_sync |-> TRUE, size |-> Len(_intervals),
                  raised |-> "None"]

\* The rest of a method after its self.build(): b is what the build left
\* behind and r what the method returns on the built head; the caller's
\* cursor, if any, was dropped before the call
after_build(b, name, args, r) ==
    /\ _head' = b.head
    /\ _in_sync' = b.in_sync
    /\ _size' = b.size
    /\ call' = Returned(name, args, IF b.raised # "None" THEN Raise(b.raised) ELSE r)
    /\ cursor' = None
    /\ UNCHANGED <<_intervals, n, k>>

build ==
    /\ constructed
    /\ LET b == built IN after_build(b, "build", <<>>, Ok(<<>>))

\* an insert that rebuilds the node tree at once
insert_eager(begin, end) ==
    /\ constructed
    /\ Len(_intervals) < MaxLen
    /\ _intervals' = Append(_intervals,
                            [begin |-> begin, end |-> end, id |-> Len(_intervals) + 1])
    /\ LET node == IntervalNode(_intervals')
       IN IF node = RecursionError
          THEN /\ _in_sync' = FALSE
               /\ UNCHANGED <<_head, _size>>
          ELSE /\ _head' = node
               /\ _in_sync' = TRUE
               /\ _size' = Len(_intervals')
    /\ k' = k + 1
    /\ call' = Returned("insert", <<begin, end>>, Ok(<<>>))
    /\ cursor' = None
    /\ UNCHANGED n

insert(begin, end) ==
    /\ constructed
    /\ Len(_intervals) < MaxLen
    /\ _intervals' = Append(_intervals,
                            [begin |-> begin, end |-> end, id |-> Len(_intervals) + 1])
    /\ _in_sync' = FALSE
    /\ k' = k + 1
    /\ call' = Returned("insert", <<begin, end>>, Ok(<<>>))
    /\ cursor' = None
    /\ UNCHANGED <<_head, _size, n>>

search(position) ==
    /\ constructed
    /\ LET b == built
       IN after_build(b, "search", <<position>>, node_search(b.head, position))

get_overlaps(begin, end) ==
    /\ constructed
    /\ LET b == built
       IN after_build(b, "get_overlaps", <<begin, end>>,
                      node_get_overlaps(b.head, begin, end))

fuzzy_query(begin, end, coverage) ==
    /\ constructed
    /\ IF coverage_rejected(coverage)
       THEN /\ call' = Returned("fuzzy_query", <<begin, end, coverage>>, Raise("ValueError"))
            /\ cursor' = None
            /\ UNCHANGED <<_intervals, _head, _in_sync, _size, n, k>>
       ELSE LET b == built
            IN after_build(b, "fuzzy_query", <<begin, end, coverage>>,
                           fuzzy_result(b.head, begin, end, coverage))

tree_fuzzy_query(begin, end, coverage) ==
    /\ constructed
    /\ IF coverage_rejected(coverage)
       THEN /\ call' = Returned("tree_fuzzy_query", <<begin, end, coverage>>, Raise("ValueError"))
            /\ cursor' = None
            /\ UNCHANGED <<_intervals, _head, _in_sync, _size, n, k>>
       ELSE LET b == built
            IN after_build(b, "tree_fuzzy_query", <<begin, end, coverage>>,
                           tree_fuzzy_result(b.head, begin, end, coverage))

__len__ ==
    /\ constructed
    /\ LET b == built IN after_build(b, "__len__", <<>>, Ok(b.size))

__bool__ ==
    /\ constructed
    /\ LET b == built IN after_build(b, "__bool__", <<>>, Ok(b.size # 0))

\* _tree.IntervalTree.__iter__
__iter__ ==
    /\ constructed
    /\ LET b == built
       IN /\ _head' = b.head
          /\ _in_sync' = b.in_sync
          /\ _size' = b.size
          /\ call' = Returned("__iter__", <<>>,
                              IF b.raised # "None" THEN Raise(b.raised) ELSE Ok(<<>>))
          /\ cursor' = IF b.raised # "None" THEN None ELSE IntervalTreeIterator(b.head)
          /\ UNCHANGED <<_intervals, n, k>>

\* IntervalTreeIterator.__next__, until it raises
__next__ ==
    /\ cursor # None
    /\ cursor.state = "active"
    /\ LET h == has_next(cursor)
       IN IF h.raised # "None"
          THEN /\ cursor' = [h.it EXCEPT !.state = h.raised]
               /\ call' = Returned("__next__", <<>>, Raise(h.raised))
          ELSE IF h.ret
               THEN /\ cursor' = [h.it EXCEPT !.queue = Tail(h.it.queue),
                                              !.out = Append(h.it.out, Head(h.it.queue))]
                    /\ call' = Returned("__next__", <<>>, Ok(<<Head(h.it.queue)>>))
               ELSE /\ cursor' = [h.it EXCEPT !.state = "StopIteration"]
                    /\ call' = Returned("__next__", <<>>, Raise("StopIteration"))
    /\ UNCHANGED <<_intervals, _head, _in_sync, _size, n, k>>

(* ---------------------------- specifications -------------------------- *)

Pairs(maxpos) == {<<b, e>> \in (0..maxpos) \X (0..maxpos) : b < e}

\* the positions from -1/2 to maxpos + 1/2 in steps of 1/2
Positions(maxpos) == {CovDen * h : h \in -1 .. 2 * maxpos + 1}

\* the query ranges with whole bounds from -1 to maxpos + 1
Ranges(maxpos) ==
    {<<num(r[1]), num(r[2])>> :
        r \in {q \in (-1..maxpos + 1) \X (-1..maxpos + 1) : q[1] < q[2]}}

\* the query ranges (b, b + CovDen): their margins are multiples of 1/2
FuzzyRanges(maxpos) == {<<num(b), num(b + CovDen)>> : b \in 0..maxpos - CovDen}

\* coverage -1/CovDen .. 1 + 1/CovDen
Coverages == -1 .. CovDen + 1

\* The container: every operation of IntervalTree, in any order.
Init == \E pairs \in Lists(Pairs(MaxPos), MaxLen) : New(pairs)

Next ==
    \/ __init__
    \/ \E p \in Pairs(MaxPos) : insert(p[1], p[2])
    \/ build
    \/ \E position \in Positions(MaxPos) : search(position)
    \/ \E p \in Pairs(MaxPos) : get_overlaps(num(p[1]), num(p[2]))
    \/ \E r \in FuzzyRanges(MaxPos), c \in Coverages : fuzzy_query(r[1], r[2], c)
    \/ \E r \in FuzzyRanges(MaxPos), c \in Coverages : tree_fuzzy_query(r[1], r[2], c)
    \/ __len__
    \/ __bool__
    \/ __iter__
    \/ __next__

Spec == Init /\ [][Next]_vars

\* A tree that was constructed and not used since
fresh == call.name = "__init__" /\ call.raised = "None"

\* Construction alone, of any list.
InitNode == \E pairs \in Lists(Pairs(NodePos), NodeLen) : New(pairs)

SpecNode == InitNode /\ [][__init__]_vars

\* One query on a constructed tree: the queries do not change a tree that is
\* in sync, so a run of queries is no more than its queries one by one.
search_once(position) == fresh /\ search(position)

get_overlaps_once(begin, end) == fresh /\ get_overlaps(begin, end)

fuzzy_query_once(begin, end, coverage) == fresh /\ fuzzy_query(begin, end, coverage)

tree_fuzzy_query_once(begin, end, coverage) == fresh /\ tree_fuzzy_query(begin, end, coverage)

QueryPairs == {<<b, b + 2>> : b \in 0..QuerySpan}

InitQuery == \E pairs \in Lists(QueryPairs, QueryLen) : New(pairs)

NextQuery ==
    \/ __init__
    \/ \E position \in Positions(QuerySpan + 2) : search_once(position)
    \/ \E r \in Ranges(QuerySpan + 2) : get_overlaps_once(r[1], r[2])

SpecQuery == InitQuery /\ [][NextQuery]_vars

NextFuzzy ==
    \/ __init__
    \/ \E p \in Pairs(MaxPos), c \in Coverages : fuzzy_query_once(num(p[1]), num(p[2]), c)
    \/ \E p \in Pairs(MaxPos), c \in Coverages : tree_fuzzy_query_once(num(p[1]), num(p[2]), c)

SpecFuzzy == Init /\ [][NextFuzzy]_vars

\* Inserts, rebuilds and the methods that rebuild before they answer.
NextLazy ==
    \/ __init__
    \/ \E p \in Pairs(MaxPos) : insert(p[1], p[2])
    \/ build
    \/ \E position \in 0..MaxPos : search(num(position))
    \/ __len__

SpecLazy == Init /\ [][NextLazy]_vars

\* Forward iteration over a constructed tree.
InitIter == \E pairs \in Lists(Pairs(IterPos), IterLen) : New(pairs)

NextIter ==
    \/ __init__
    \/ __iter__
    \/ __next__

SpecIter == InitIter /\ [][NextIter]_vars

(* -------------------------------- claims ------------------------------ *)

\* how often the object x occurs in the list seq
Count(seq, x) == Cardinality({j \in DOMAIN seq : seq[j] = x})

\* every object of the list sub occurs in the list sup at least as often
SubBag(sub, sup) == \A j \in DOMAIN sub : Count(sub, sub[j]) <= Count(sup, sub[j])

\* all Interval objects stored in the subtree of a node
RECURSIVE stored(_)
stored(node) ==
    IF node = None THEN <<>>
    ELSE stored(node.left) \o flatten(node.intervals) \o stored(node.right)

\* a list of Interval objects in ascending (begin, end) order, objects of
\* equal bounds in the order of the list
RECURSIVE ascending(_)
ascending(S) ==
    IF S = {} THEN <<>>
    ELSE LET m == CHOOSE x \in S : \A y \in S \ {x} :
                      lt(x, y) \/ (eq(x, y) /\ x.id < y.id)
         IN <<m>> \o ascending(S \ {m})

\* C1: search(p) on a tree built from a list S returns each stored interval
\* once if it contains p (end >= p > begin) and not at all otherwise.
C1_PointSearch ==
    (call.name = "search" /\ k = 0) =>
        \A i \in DOMAIN _intervals :
            Count(call.ret, _intervals[i])
                = IF contains(_intervals[i], call.args[1]) THEN 1 ELSE 0

\* C2: get_overlaps(b, e) on a tree built from a list S returns each stored
\* interval once if e > begin and b < end, and not at all otherwise.
C2_Overlaps ==
    (call.name = "get_overlaps" /\ k = 0) =>
        \A i \in DOMAIN _intervals :
            Count(call.ret, _intervals[i])
                = IF intersects(_intervals[i], call.args[1], call.args[2]) THEN 1 ELSE 0

\* C3: a query after inserts returns every inserted interval that satisfies
\* the query's predicate.
C3_InsertVisible ==
    /\ (call.name = "search" /\ k > 0) =>
          \A i \in (n + 1)..Len(_intervals) :
              contains(_intervals[i], call.args[1]) => Count(call.ret, _intervals[i]) > 0
    /\ (call.name = "get_overlaps" /\ k > 0) =>
          \A i \in (n + 1)..Len(_intervals) :
              intersects(_intervals[i], call.args[1], call.args[2])
                  => Count(call.ret, _intervals[i]) > 0

\* C4: the sequence a finished forward iteration produced is the stored list
\* in ascending (begin, end) order, equal bounds in insertion order.
C4_IterationOrder ==
    (cursor # None /\ cursor.state = "StopIteration") =>
        cursor.out = ascending({_intervals[i] : i \in 1.._size})

\* C5: advancing an iterator raises nothing but StopIteration, and when it
\* raises StopIteration every stored interval was produced exactly once.
C5_IterationComplete ==
    cursor # None =>
        /\ cursor.state # "AttributeError"
        /\ cursor.state = "StopIteration" =>
              \A i \in 1.._size : Count(cursor.out, _intervals[i]) = 1

\* C6: len(tree) returns n + k after k inserts into a tree constructed from n
\* intervals, and bool(tree) is False exactly when that is 0.
C6_Size ==
    /\ call.name = "__len__" => (call.raised = "None" /\ call.ret = n + k)
    /\ call.name = "__bool__" => (call.raised = "None" /\ call.ret = (n + k # 0))

\* C7: every query on a tree built from the empty list returns the empty
\* list and raises nothing.
C7_EmptyTree ==
    (/\ n = 0
     /\ k = 0
     /\ \/ call.name \in {"search", "get_overlaps"}
        \/ (call.name \in {"fuzzy_query", "tree_fuzzy_query"}
              /\ call.args[3] \in 0..CovDen))
        => (call.raised = "None" /\ call.ret = <<>>)

\* C8: fuzzy_query with a coverage below 0 or above 1 raises ValueError and
\* leaves the root, the in-sync flag and the cached size as they were.
C8_InvalidCoverage ==
    [][(/\ call'.name \in {"fuzzy_query", "tree_fuzzy_query"}
        /\ call' # call
        /\ call'.args[3] \notin 0..CovDen)
          => (call'.raised = "ValueError" /\ UNCHANGED <<_head, _in_sync, _size>>)]_vars

\* C9: what fuzzy_query(begin, end, c) returns is also returned for every
\* smaller coverage c2 in [0, 1], by either implementation.
C9_FuzzyMonotone ==
    /\ (call.name = "fuzzy_query" /\ call.raised = "None" /\ call.args[3] \in 0..CovDen) =>
          \A c2 \in 0..call.args[3] :
              LET other == fuzzy_result(_head, call.args[1], call.args[2], c2)
              IN other.raised = "None" /\ SubBag(call.ret, other.ret)
    /\ (call.name = "tree_fuzzy_query" /\ call.raised = "None" /\ call.args[3] \in 0..CovDen) =>
          \A c2 \in 0..call.args[3] :
              LET other == tree_fuzzy_result(_head, call.args[1], call.args[2], c2)
              IN other.raised = "None" /\ SubBag(call.ret, other.ret)

\* a fuzzy query at coverage 1 that returns something, and less than the
\* same query at coverage 0
C9_Witness ==
    /\ call.name = "fuzzy_query"
    /\ call.raised = "None"
    /\ call.args[3] = CovDen
    /\ Len(call.ret) > 0
    /\ Len(fuzzy_result(_head, call.args[1], call.args[2], 0).ret) > Len(call.ret)

\* the partition rule at a node and at every node below it
RECURSIVE partitioned(_)
partitioned(node) ==
    \/ node = None
    \/ /\ node.intervals = <<>> /\ node.left = None /\ node.right = None
       /\ "_center" \notin DOMAIN node
    \/ /\ "_center" \in DOMAIN node
       /\ \A j \in DOMAIN node.intervals :
             /\ node.intervals[j].items # <<>>
             /\ \A x \in {node.intervals[j].items[i] : i \in DOMAIN node.intervals[j].items} :
                   /\ key(x) = node.intervals[j].key
                   /\ x.begin < node._center
                   /\ node._center <= x.end
             /\ \A i \in DOMAIN node.intervals :
                   i # j => node.intervals[i].key # node.intervals[j].key
       /\ \A i \in DOMAIN stored(node.left) : stored(node.left)[i].end < node._center
       /\ \A i \in DOMAIN stored(node.right) : stored(node.right)[i].begin >= node._center
       /\ partitioned(node.left)
       /\ partitioned(node.right)

\* C10: the construction of a tree from any list stores every interval of
\* the list exactly once and nothing else, and at every node the own
\* intervals have begin < center <= end, the left subtree end < center, the
\* right subtree begin >= center.
C10_Partition ==
    call.name = "__init__" =>
        /\ call.raised = "None"
        /\ partitioned(_head)
        /\ Len(stored(_head)) = Len(_intervals)
        /\ \A i \in DOMAIN _intervals : Count(stored(_head), _intervals[i]) = 1

\* C11: no operation of the tree changes the list the caller passed to the
\* constructor.
C11_CallerListUnchanged ==
    [][constructed => intervals_argument' = intervals_argument]_vars

\* C12: the construction of a tree from any list of intervals with
\* begin < end returns: no recursive call is given the whole input list of
\* its caller again.
C12_ConstructionTerminates ==
    call.name = "__init__" => call.raised # "RecursionError"

\* the intervals of get_overlaps(begin - m, end + m) that satisfy
\* interval.begin <= begin + m and interval.end >= end - m, in the order of
\* get_overlaps, m being the margin
widen_then_filter(head, begin, end, coverage) ==
    LET m == get_boundary_margin(begin, end, coverage)
        found == node_get_overlaps(head, begin - m, end + m)
    IN IF found.raised # "None" THEN found
       ELSE Ok(SelectSeq(found.ret,
                         LAMBDA I : num(I.begin) <= begin + m /\ num(I.end) >= end - m))

\* C13: with a coverage in [0, 1], fuzzy_query of either implementation
\* returns exactly the widened overlap query filtered on the proximal range.
C13_WidenThenFilter ==
    (call.name \in {"fuzzy_query", "tree_fuzzy_query"} /\ call.args[3] \in 0..CovDen) =>
        LET expected == widen_then_filter(_head, call.args[1], call.args[2], call.args[3])
        IN call.raised = expected.raised /\ call.ret = expected.ret

\* C14: insert appends its interval to the backing list and marks the tree
\* out of sync, leaving the root and the cached size as they were; the root
\* changes only in a step that finds the tree out of sync and leaves it in
\* sync, and no other step changes an in-sync tree.
C14_LazyInsert ==
    [][constructed =>
         /\ k' # k =>
               /\ Len(_intervals') = Len(_intervals) + 1
               /\ SubSeq(_intervals', 1, Len(_intervals)) = _intervals
               /\ _in_sync' = FALSE
               /\ UNCHANGED <<_head, _size>>
         /\ _head' # _head => (~_in_sync /\ _in_sync' /\ k' = k)
         /\ (_in_sync /\ k' = k) => UNCHANGED <<_head, _in_sync, _size, _intervals>>]_vars

\* after an insert into a non-empty tree: the list holds the new interval,
\* the node tree and the cached size are still those of the list before it
C14_Witness ==
    /\ call.name = "insert"
    /\ n > 0
    /\ ~_in_sync
    /\ Len(_intervals) = n + 1
    /\ _size = n
    /\ Len(stored(_head)) = n

====
